---------------------------- MODULE Spec2Model ----------------------------
(* config.py of the ecosystem monitoring system, as a state machine.       *)
(*                                                                         *)
(* The module body is the load: it binds the path settings, creates the    *)
(* six directories, binds every other setting and print_config, and, run   *)
(* as a script, calls print_config.  A process either runs the file as a   *)
(* script or imports it; after an import the other subsystems read the     *)
(* settings.  The filesystem outlives the process, the namespace does not. *)
(*                                                                         *)
(* Fractions (0.25, 0.45, ...) are kept in hundredths (25, 45, ...).       *)
EXTENDS Integers, Sequences, FiniteSets, TLC

VARIABLES
    fs,         \* target path -> "absent" | "dir" | "file"
    wr,         \* directory -> whether the process may create entries in it
    cfg,        \* the literals the configuration file assigns (lines 37-194)
    mode,       \* "script" (python config.py) | "import" (import config)
    pc,         \* position of the process in the module body
    i,          \* index of the bootstrap loop (line 30)
    ns,         \* the module namespace: setting name -> value
    err,        \* the exception that ended the load, or "none"
    out,        \* lines written to standard output by this process
    obs,        \* reader -> what it last read from the namespace
    lookup,     \* last species colour lookup of a consumer
    calls,      \* print_config calls made by the consumers of this process
    runs,       \* processes started so far
    fs0,        \* history: the filesystem when this process started
    wr0,        \* history: the permissions when this process started
    nsLoaded,   \* history: the namespace when this process's load completed
    prev        \* history: how the previous process's load ended

vars == <<fs, wr, cfg, mode, pc, i, ns, err, out, obs, lookup, calls, runs,
          fs0, wr0, nsLoaded, prev>>

-----------------------------------------------------------------------------
(* Bounds *)

\* processes started one after the other on the same filesystem
MaxRuns == 2
\* print_config calls of the consumers of one process
MaxDescribe == 1

-----------------------------------------------------------------------------
(* Paths (lines 17-27) *)

None == "<None>"

BASE_DIR == "base"
DATA_DIR == "base/data"
VIDEO_DIR == "base/data/videos"
AUDIO_DIR == "base/data/audio"
IMAGES_DIR == "base/data/images"
RESULTS_DIR == "base/data/results"
MODELS_DIR == "base/models"

\* the path settings bound before the bootstrap loop
PathSettings ==
    [BASE_DIR |-> BASE_DIR, DATA_DIR |-> DATA_DIR, VIDEO_DIR |-> VIDEO_DIR,
     AUDIO_DIR |-> AUDIO_DIR, IMAGES_DIR |-> IMAGES_DIR,
     RESULTS_DIR |-> RESULTS_DIR, MODELS_DIR |-> MODELS_DIR]

\* the list the bootstrap loop walks (line 30), without its last entry
TargetDirsShort ==
    <<DATA_DIR, VIDEO_DIR, AUDIO_DIR, IMAGES_DIR, RESULTS_DIR>>

\* the list the bootstrap loop walks (line 30)
TargetDirs ==
    <<DATA_DIR, VIDEO_DIR, AUDIO_DIR, IMAGES_DIR, RESULTS_DIR, MODELS_DIR>>

\* the six directories of the filesystem layout
Layout ==
    {DATA_DIR, VIDEO_DIR, AUDIO_DIR, IMAGES_DIR, RESULTS_DIR, MODELS_DIR}

DataChildren == {VIDEO_DIR, AUDIO_DIR, IMAGES_DIR, RESULTS_DIR}

\* Path.parent
Parent(p) ==
    IF p \in DataChildren THEN DATA_DIR ELSE BASE_DIR

\* BASE_DIR holds config.py itself: it always exists as a directory
Kind(f, p) == IF p = BASE_DIR THEN "dir" ELSE f[p]

\* Path.is_dir()
IsDir(f, p) == Kind(f, p) = "dir"

OSErrors ==
    {"FileExistsError", "FileNotFoundError", "NotADirectoryError",
     "PermissionError"}

\* os.mkdir(p): one directory, no parents, fails if anything is there
OsMkdir(f, w, p) ==
    IF p = BASE_DIR THEN [fs |-> f, wr |-> w, err |-> "FileExistsError"]
    ELSE IF Kind(f, Parent(p)) = "absent"
        THEN [fs |-> f, wr |-> w, err |-> "FileNotFoundError"]
    ELSE IF Kind(f, Parent(p)) = "file"
        THEN [fs |-> f, wr |-> w, err |-> "NotADirectoryError"]
    ELSE IF f[p] # "absent"
        THEN [fs |-> f, wr |-> w, err |-> "FileExistsError"]
    ELSE IF ~w[Parent(p)]
        THEN [fs |-> f, wr |-> w, err |-> "PermissionError"]
    ELSE [fs |-> [f EXCEPT ![p] = "dir"],
          wr |-> IF p \in DOMAIN w THEN [w EXCEPT ![p] = TRUE] ELSE w,
          err |-> "none"]

RECURSIVE PathMkdirAnyKind(_, _, _, _, _)
\* Path.mkdir with exist_ok taken to mean "whatever is there is fine"
PathMkdirAnyKind(f, w, p, parents, exist_ok) ==
    LET r == OsMkdir(f, w, p) IN
    IF r.err = "none" THEN r
    ELSE IF r.err = "FileNotFoundError" THEN
        IF ~parents \/ p = BASE_DIR THEN r
        ELSE LET up == PathMkdirAnyKind(f, w, Parent(p), TRUE, TRUE) IN
             IF up.err # "none" THEN up
             ELSE PathMkdirAnyKind(up.fs, up.wr, p, FALSE, exist_ok)
    ELSE IF ~exist_ok THEN r
    ELSE [r EXCEPT !.err = "none"]

\* Path.mkdir without its handling of what exists: plain os.mkdir
PathMkdirPlain(f, w, p, parents, exist_ok) == OsMkdir(f, w, p)

RECURSIVE PathMkdir(_, _, _, _, _)
\* Path.mkdir(parents, exist_ok), called at line 31 with both True:
\*   try: os.mkdir(self)
\*   except FileNotFoundError: (parents) parent.mkdir(True, True); self.mkdir()
\*   except OSError: if not exist_ok or not self.is_dir(): raise
PathMkdir(f, w, p, parents, exist_ok) ==
    LET r == OsMkdir(f, w, p) IN
    IF r.err = "none" THEN r
    ELSE IF r.err = "FileNotFoundError" THEN
        IF ~parents \/ p = BASE_DIR THEN r
        ELSE LET up == PathMkdir(f, w, Parent(p), TRUE, TRUE) IN
             IF up.err # "none" THEN up
             ELSE PathMkdir(up.fs, up.wr, p, FALSE, exist_ok)
    ELSE IF ~exist_ok \/ ~IsDir(f, p) THEN r
    ELSE [r EXCEPT !.err = "none"]

-----------------------------------------------------------------------------
(* Settings (lines 37-194) *)

\* species -> colour triple (lines 127-132), the default entry misspelt
BBOX_COLORS_NoDefault ==
    [bird |-> <<0, 255, 0>>, bear |-> <<255, 0, 0>>, deer |-> <<0, 255, 255>>,
     defualt |-> <<255, 255, 0>>]

\* species -> colour triple (lines 127-132)
BBOX_COLORS ==
    [bird |-> <<0, 255, 0>>, bear |-> <<255, 0, 0>>, deer |-> <<0, 255, 255>>,
     default |-> <<255, 255, 0>>]

\* COCO class id -> species (lines 46-57)
ANIMAL_CLASSES ==
    (14 :> "bird") @@ (15 :> "cat") @@ (16 :> "dog") @@ (17 :> "horse") @@
    (18 :> "sheep") @@ (19 :> "cow") @@ (20 :> "elephant") @@ (21 :> "bear") @@
    (22 :> "zebra") @@ (23 :> "giraffe")

\* the literals of the file as shipped
Shipped ==
    [YOLO_MODEL |-> "yolov8n.pt",
     YOLO_CONFIDENCE_THRESHOLD |-> 25,
     YOLO_IOU_THRESHOLD |-> 45,
     ANIMAL_CLASSES |-> ANIMAL_CLASSES,
     VIDEO_FPS_SAMPLE |-> 2,
     VIDEO_RESIZE_FACTOR |-> 100,
     YAMNET_MODEL_URL |-> "https://tfhub.dev/google/yamnet/1",
     YAMNET_SAMPLE_RATE |-> 16000,
     AUDIO_CONFIDENCE_THRESHOLD |-> 30,
     NATURE_SOUND_CLASSES |->
         <<"Bird", "Bird vocalization", "Bird flight", "Chirp", "Tweet",
           "Squawk", "Animal", "Domestic animals", "Wild animals", "Insect",
           "Cricket", "Frog", "Wind", "Rain", "Stream", "Ocean", "Thunder">>,
     ALERT_MIN_ANIMALS |-> 10,
     ALERT_MAX_ANIMALS |-> 100,
     ALERT_RARE_SPECIES |-> <<"bear", "elephant", "giraffe", "zebra">>,
     ALERT_ACTIVITY_DROP |-> 50,
     ALERT_ACTIVITY_SPIKE |-> 200,
     FIGURE_SIZE |-> <<15, 8>>,
     FIGURE_DPI |-> 100,
     COLOR_PALETTE |-> "viridis",
     BBOX_COLORS |-> BBOX_COLORS,
     EXPORT_FORMAT |-> "csv",
     DATETIME_FORMAT |-> "%Y-%m-%d_%H-%M-%S",
     SAVE_VISUALIZATIONS |-> TRUE,
     IMAGE_FORMAT |-> "png",
     LOG_LEVEL |-> "INFO",
     SAVE_LOGS |-> TRUE,
     USE_GPU |-> TRUE,
     BATCH_SIZE |-> 16,
     NUM_WORKERS |-> 4,
     TIMEZONE |-> "UTC",
     REPORT_LANGUAGE |-> "ru",
     ALERT_EMAIL |-> None,
     TELEGRAM_BOT_TOKEN |-> None,
     TELEGRAM_CHAT_ID |-> None,
     VERSION |-> "1.0.0",
     PROJECT_NAME |-> "Ecosystem Monitoring System",
     \* the source's text is Russian; this is its meaning
     PROJECT_DESCRIPTION |-> "Ecosystem monitoring system using ML"]

\* The file is the operator's configuration: its comments list the values
\* meant to be written in place of the shipped ones (lines 36, 39, 138, 147,
\* 153, 183).  The inputs of a load are the shipped literals and these edits
\* of one setting group each.
Configured ==
    {Shipped}
    \cup {[Shipped EXCEPT !.YOLO_CONFIDENCE_THRESHOLD = v] : v \in {100, 150}}
    \cup {[Shipped EXCEPT !.YOLO_IOU_THRESHOLD = v] : v \in {-10}}
    \cup {[Shipped EXCEPT !.AUDIO_CONFIDENCE_THRESHOLD = v] : v \in {0, 120}}
    \cup {[Shipped EXCEPT !.ALERT_MIN_ANIMALS = m[1], !.ALERT_MAX_ANIMALS = m[2]] :
             m \in {<<50, 10>>, <<-1, 100>>, <<10, 10>>}}
    \cup {[Shipped EXCEPT !.EXPORT_FORMAT = v] : v \in {"json", "xml"}}
    \cup {[Shipped EXCEPT !.IMAGE_FORMAT = v] : v \in {"bmp"}}
    \cup {[Shipped EXCEPT !.LOG_LEVEL = v] : v \in {"TRACE"}}
    \cup {[Shipped EXCEPT !.ALERT_EMAIL = "ecologist@example.com"]}
    \cup {[Shipped EXCEPT !.TELEGRAM_BOT_TOKEN = "token",
                          !.TELEGRAM_CHAT_ID = "chat"]}

\* the settings bound after the bootstrap loop (lines 37-194); LOG_FILE is
\* derived from BASE_DIR (line 159)
LateSettings(c) ==
    c @@ [LOG_FILE |-> BASE_DIR \o "/ecosystem_monitor.log"]

LateNames == DOMAIN LateSettings(Shipped)

-----------------------------------------------------------------------------
(* print_config (lines 197-210) *)

Digit(d) == CASE d = 0 -> "0" [] d = 1 -> "1" [] d = 2 -> "2" [] d = 3 -> "3"
              [] d = 4 -> "4" [] d = 5 -> "5" [] d = 6 -> "6" [] d = 7 -> "7"
              [] d = 8 -> "8" [] d = 9 -> "9"

\* str() of a float kept in hundredths: 25 -> "0.25", 30 -> "0.3", 100 -> "1.0"
FloatStr(h) ==
    LET a == IF h < 0 THEN -h ELSE h
        whole == ToString(a \div 100)
        frac == IF a % 10 = 0 THEN Digit((a % 100) \div 10)
                ELSE Digit((a % 100) \div 10) \o Digit(a % 10)
    IN (IF h < 0 THEN "-" ELSE "") \o whole \o "." \o frac

\* str() of a bool
BoolStr(b) == IF b THEN "True" ELSE "False"

\* str() of a str or of None
TextStr(v) == IF v = None THEN "None" ELSE v

Banner == "============================================================"

\* the ten lines of print_config: the text before the braces, the settings
\* formatted in the braces, and their formatted value; the labels are the
\* source's Russian labels in English
ConfigLines(n) ==
    << [label |-> "", fields |-> {}, value |-> Banner],
       [label |-> "", fields |-> {"PROJECT_NAME", "VERSION"},
        value |-> TextStr(n.PROJECT_NAME) \o " v" \o TextStr(n.VERSION)],
       [label |-> "", fields |-> {}, value |-> Banner],
       [label |-> "Base directory: ", fields |-> {"BASE_DIR"},
        value |-> TextStr(n.BASE_DIR)],
       [label |-> "Data directory: ", fields |-> {"DATA_DIR"},
        value |-> TextStr(n.DATA_DIR)],
       [label |-> "YOLO model: ", fields |-> {"YOLO_MODEL"},
        value |-> TextStr(n.YOLO_MODEL)],
       [label |-> "YOLO confidence threshold: ",
        fields |-> {"YOLO_CONFIDENCE_THRESHOLD"},
        value |-> FloatStr(n.YOLO_CONFIDENCE_THRESHOLD)],
       [label |-> "Audio confidence threshold: ",
        fields |-> {"AUDIO_CONFIDENCE_THRESHOLD"},
        value |-> FloatStr(n.AUDIO_CONFIDENCE_THRESHOLD)],
       [label |-> "GPU usage: ", fields |-> {"USE_GPU"},
        value |-> BoolStr(n.USE_GPU)],
       [label |-> "", fields |-> {}, value |-> Banner] >>

\* print_config that also rebinds a global it formats
print_config_Rebinds(n) ==
    [ns |-> [n EXCEPT !.USE_GPU = ~n.USE_GPU], lines |-> ConfigLines(n)]

\* print_config(): the namespace it leaves and the lines it prints
print_config(n) == [ns |-> n, lines |-> ConfigLines(n)]

-----------------------------------------------------------------------------
(* The consumers of the settings *)

Modes == {"script", "import"}

\* the subsystems that read the settings after an import
Readers == {"detection", "alerting"}

\* the species a consumer asks a colour for
Species == {"bird", "deer", "cow", "deer-subspecies-x"}

\* the colour of a species: its own entry, else the default entry
ColorFor(colors, s) ==
    IF s \in DOMAIN colors THEN [ok |-> TRUE, color |-> colors[s]]
    ELSE IF "default" \in DOMAIN colors
        THEN [ok |-> TRUE, color |-> colors["default"]]
    ELSE [ok |-> FALSE, color |-> <<>>]

EmptyNs == [n \in {} |-> None]

Unread == [seen |-> FALSE, view |-> EmptyNs]

NoLookup == [species |-> None, ok |-> FALSE, color |-> <<>>]

-----------------------------------------------------------------------------
(* The state machine *)

Kinds == {"absent", "dir", "file"}

\* a filesystem: entries exist only inside directories; permissions are
\* those of the existing directories
TypeFS(f, w) ==
    /\ f[DATA_DIR] # "dir" =>
          /\ \A d \in DataChildren : f[d] = "absent"
          /\ ~w[DATA_DIR]

Init ==
    /\ fs \in [Layout -> Kinds]
    /\ wr \in [{BASE_DIR, DATA_DIR} -> BOOLEAN]
    /\ TypeFS(fs, wr)
    /\ cfg \in Configured
    /\ mode \in Modes
    /\ pc = "paths"
    /\ i = 1
    /\ ns = EmptyNs
    /\ err = "none"
    /\ out = <<>>
    /\ obs = [r \in Readers |-> Unread]
    /\ lookup = NoLookup
    /\ calls = 0
    /\ runs = 1
    /\ fs0 = fs
    /\ wr0 = wr
    /\ nsLoaded = EmptyNs
    /\ prev = [ended |-> "none", fs |-> fs]

\* lines 17-27: the path settings
PathSetup ==
    /\ pc = "paths"
    /\ ns' = PathSettings
    /\ i' = 1
    /\ pc' = "mkdir"
    /\ UNCHANGED <<fs, wr, cfg, mode, err, out, obs, lookup, calls, runs,
                   fs0, wr0, nsLoaded, prev>>

\* lines 30-31: one iteration of the bootstrap loop; an exception of mkdir
\* is not caught and ends the module body
MkdirStep ==
    /\ pc = "mkdir"
    /\ i <= Len(TargetDirs)
    /\ LET r == PathMkdir(fs, wr, TargetDirs[i], TRUE, TRUE) IN
        /\ fs' = r.fs
        /\ wr' = r.wr
        /\ err' = r.err
        /\ IF r.err # "none" THEN pc' = "failed" /\ i' = i
           ELSE /\ i' = i + 1
                /\ pc' = IF i = Len(TargetDirs) THEN "settings" ELSE "mkdir"
    /\ UNCHANGED <<cfg, mode, ns, out, obs, lookup, calls, runs,
                   fs0, wr0, nsLoaded, prev>>

\* lines 37-194: every other setting is bound to the literal the file gives
DefineSettings ==
    /\ pc = "settings"
    /\ ns' = ns @@ LateSettings(cfg)
    /\ pc' = "def"
    /\ UNCHANGED <<fs, wr, cfg, mode, i, err, out, obs, lookup, calls, runs,
                   fs0, wr0, nsLoaded, prev>>

\* line 197: def print_config
DefinePrintConfig ==
    /\ pc = "def"
    /\ ns' = ns @@ [print_config |-> "function"]
    /\ pc' = "main"
    /\ UNCHANGED <<fs, wr, cfg, mode, i, err, out, obs, lookup, calls, runs,
                   fs0, wr0, nsLoaded, prev>>

\* lines 213-214, run as a script: print_config() and the process ends
MainScript ==
    /\ pc = "main"
    /\ mode = "script"
    /\ LET r == print_config(ns) IN
        /\ ns' = r.ns
        /\ out' = out \o r.lines
    /\ nsLoaded' = ns
    /\ pc' = "done"
    /\ UNCHANGED <<fs, wr, cfg, mode, i, err, obs, lookup, calls, runs,
                   fs0, wr0, prev>>

\* line 213, imported: the guard is false and the import returns
MainImport ==
    /\ pc = "main"
    /\ mode = "import"
    /\ nsLoaded' = ns
    /\ pc' = "loaded"
    /\ UNCHANGED <<fs, wr, cfg, mode, i, ns, err, out, obs, lookup, calls,
                   runs, fs0, wr0, prev>>

\* a subsystem reads the settings of the imported module
Read(r) ==
    /\ pc = "loaded"
    /\ obs' = [obs EXCEPT ![r] = [seen |-> TRUE, view |-> ns]]
    /\ UNCHANGED <<fs, wr, cfg, mode, pc, i, ns, err, out, lookup, calls, runs,
                   fs0, wr0, nsLoaded, prev>>

\* a subsystem calls config.print_config()
Describe ==
    /\ pc = "loaded"
    /\ calls < MaxDescribe
    /\ LET r == print_config(ns) IN
        /\ ns' = r.ns
        /\ out' = out \o r.lines
    /\ calls' = calls + 1
    /\ UNCHANGED <<fs, wr, cfg, mode, pc, i, err, obs, lookup, runs,
                   fs0, wr0, nsLoaded, prev>>

\* a subsystem looks the colour of a species up in BBOX_COLORS
LookupColor(s) ==
    /\ pc = "loaded"
    /\ lookup' = [species |-> s] @@ ColorFor(ns.BBOX_COLORS, s)
    /\ UNCHANGED <<fs, wr, cfg, mode, pc, i, ns, err, out, obs, calls, runs,
                   fs0, wr0, nsLoaded, prev>>

\* the process is over (exit, traceback, or the importer's end) and the
\* program is started again on the filesystem it left
Restart ==
    /\ pc \in {"failed", "done", "loaded"}
    /\ runs < MaxRuns
    /\ runs' = runs + 1
    /\ mode' \in Modes
    /\ pc' = "paths"
    /\ i' = 1
    /\ ns' = EmptyNs
    /\ err' = "none"
    /\ out' = <<>>
    /\ obs' = [r \in Readers |-> Unread]
    /\ lookup' = NoLookup
    /\ calls' = 0
    /\ fs0' = fs
    /\ wr0' = wr
    /\ nsLoaded' = EmptyNs
    /\ prev' = [ended |-> IF pc = "failed" THEN "failed" ELSE "ok", fs |-> fs]
    /\ UNCHANGED <<fs, wr, cfg>>

Next ==
    \/ PathSetup
    \/ MkdirStep
    \/ DefineSettings
    \/ DefinePrintConfig
    \/ MainScript
    \/ MainImport
    \/ \E r \in Readers : Read(r)
    \/ Describe
    \/ \E s \in Species : LookupColor(s)
    \/ Restart

Spec == Init /\ [][Next]_vars

-----------------------------------------------------------------------------
(* Properties *)

\* the module body has run to its end
LoadCompleted == pc \in {"main", "loaded", "done"}

\* a consumer has the settings at hand, or has used them
Readable ==
    \/ pc \in {"loaded", "done"}
    \/ \E r \in Readers : obs[r].seen
    \/ lookup # NoLookup
    \/ out # <<>>

AllDirsExist == \A d \in Layout : fs[d] = "dir"

\* C1: whenever the load has completed, and in every state where a setting
\* is readable, each of the six directories of the layout exists as a
\* directory.
C1_DirsExistBeforeRead == (LoadCompleted \/ Readable) => AllDirsExist

\* C1: an import that had to create directories has returned and a
\* subsystem has read the settings.
C1_Witness ==
    /\ pc = "loaded"
    /\ \E r \in Readers : obs[r].seen
    /\ \E d \in Layout : fs0[d] = "absent"
    /\ AllDirsExist

\* every target path is a directory already, or is absent where the process
\* may create it
Creatable(f, w) ==
    \A d \in Layout :
        \/ f[d] = "dir"
        \/ /\ f[d] = "absent"
           /\ IsDir(f, Parent(d)) => w[Parent(d)]

\* a load after a successful load does not fail and leaves the filesystem
\* as the earlier load left it
SecondLoadSame == prev.ended = "ok" => (pc # "failed" /\ err = "none" /\ fs = prev.fs)

\* C2 as amended: on a filesystem where every target path is either a
\* directory already or absent where the process may create it, the load
\* does not fail; and a load after a successful load succeeds again and
\* leaves the filesystem exactly as the first load left it.
C2_IdempotentLoad ==
    /\ Creatable(fs0, wr0) => (pc # "failed" /\ err = "none")
    /\ SecondLoadSame

\* C2: a second load has completed after a successful first one.
C2_Witness ==
    /\ runs = 2
    /\ prev.ended = "ok"
    /\ pc \in {"loaded", "done"}
    /\ fs = prev.fs

\* C2 as stated: on any filesystem where some or all target directories
\* exist as directories the load succeeds, and a second load after a
\* successful one succeeds and leaves the filesystem as it was.
C2_Original ==
    /\ (\E d \in Layout : fs0[d] = "dir") => (pc # "failed" /\ err = "none")
    /\ SecondLoadSame

\* a target path is a regular file, or is absent in a directory the process
\* may not create entries in
Obstructed(f, w) ==
    \E d \in Layout :
        \/ f[d] = "file"
        \/ f[d] = "absent" /\ IsDir(f, Parent(d)) /\ ~w[Parent(d)]

\* C3: when a target path is a regular file or cannot be created for lack
\* of permissions, the load ends in a filesystem error and never gets past
\* the bootstrap: no later setting is bound, nothing is read or printed.
C3_ObstructionAborts ==
    Obstructed(fs0, wr0) =>
        /\ pc \in {"paths", "mkdir", "failed"}
        /\ DOMAIN ns \cap (LateNames \cup {"print_config"}) = {}
        /\ ~Readable
        /\ pc = "failed" => err \in OSErrors

\* C3: a load has failed on a regular file in the place of a directory.
C3_Witness ==
    /\ pc = "failed"
    /\ err = "FileExistsError"
    /\ \E d \in Layout : fs0[d] = "file"

\* the settings are at the consumers' disposal
Loaded == pc \in {"loaded", "done"}

Thresholds ==
    {"YOLO_CONFIDENCE_THRESHOLD", "YOLO_IOU_THRESHOLD",
     "AUDIO_CONFIDENCE_THRESHOLD"}

\* within [0.0, 1.0], in hundredths
InUnit(v) == 0 <= v /\ v <= 100

\* C4: a load whose file gives a threshold outside [0.0, 1.0] never
\* completes, so every loaded record has its three thresholds in [0.0, 1.0].
C4_ThresholdsValidated ==
    /\ (\E t \in Thresholds : ~InUnit(cfg[t])) => ~Loaded
    /\ Loaded => \A t \in Thresholds : InUnit(ns[t])

\* C5: a load whose file gives ALERT_MIN_ANIMALS > ALERT_MAX_ANIMALS or a
\* negative bound never completes, so every loaded record has
\* 0 <= ALERT_MIN_ANIMALS <= ALERT_MAX_ANIMALS.
C5_AlertBoundsValidated ==
    /\ (cfg.ALERT_MIN_ANIMALS > cfg.ALERT_MAX_ANIMALS
           \/ cfg.ALERT_MIN_ANIMALS < 0 \/ cfg.ALERT_MAX_ANIMALS < 0) => ~Loaded
    /\ Loaded => /\ 0 <= ns.ALERT_MIN_ANIMALS
                 /\ ns.ALERT_MIN_ANIMALS <= ns.ALERT_MAX_ANIMALS

\* the values the source's comments enumerate (lines 138, 147, 153)
ExportFormats == {"csv", "json", "excel"}
ImageFormats == {"png", "jpg"}
LogLevels == {"DEBUG", "INFO", "WARNING", "ERROR"}

\* C6: a load whose file gives an export format, image format or log level
\* outside its enumerated set never completes: no loaded record holds such
\* a value for a consumer to find at first use.
C6_EnumsValidatedAtLoad ==
    /\ (cfg.EXPORT_FORMAT \notin ExportFormats
           \/ cfg.IMAGE_FORMAT \notin ImageFormats
           \/ cfg.LOG_LEVEL \notin LogLevels) => ~Loaded
    /\ Loaded => /\ ns.EXPORT_FORMAT \in ExportFormats
                 /\ ns.IMAGE_FORMAT \in ImageFormats
                 /\ ns.LOG_LEVEL \in LogLevels

\* the validation rules of a record
ValidRecord(n) ==
    /\ \A t \in Thresholds : InUnit(n[t])
    /\ 0 <= n.ALERT_MIN_ANIMALS /\ n.ALERT_MIN_ANIMALS <= n.ALERT_MAX_ANIMALS
    /\ n.YAMNET_SAMPLE_RATE > 0 /\ n.BATCH_SIZE > 0 /\ n.NUM_WORKERS > 0
    /\ n.EXPORT_FORMAT \in ExportFormats
    /\ n.IMAGE_FORMAT \in ImageFormats
    /\ n.LOG_LEVEL \in LogLevels
    /\ "default" \in DOMAIN n.BBOX_COLORS

\* C7: a load either fails with none of its effect in place (no directory
\* created, no later setting bound) or makes available a record that has
\* every directory and satisfies every validation rule.
C7_NoPartialSuccess ==
    /\ pc = "failed" =>
          /\ fs = fs0
          /\ DOMAIN ns \cap (LateNames \cup {"print_config"}) = {}
    /\ Loaded => (AllDirsExist /\ ValidRecord(ns))

\* C8: the mapping bound by the load has a default entry; a lookup of an
\* unlisted species gives the default triple (255, 255, 0) and does not
\* fail, a lookup of a listed species gives that species' triple.
C8_DefaultColor ==
    /\ "BBOX_COLORS" \in DOMAIN ns => "default" \in DOMAIN ns.BBOX_COLORS
    /\ lookup # NoLookup =>
          /\ lookup.ok
          /\ lookup.color =
                CASE lookup.species = "bird" -> <<0, 255, 0>>
                  [] lookup.species = "bear" -> <<255, 0, 0>>
                  [] lookup.species = "deer" -> <<0, 255, 255>>
                  [] OTHER -> <<255, 255, 0>>

\* C8: an unlisted species has been looked up and got the default triple.
C8_Witness ==
    /\ lookup.species = "deer-subspecies-x"
    /\ lookup.ok
    /\ lookup.color = <<255, 255, 0>>

OptionalFields == {"ALERT_EMAIL", "TELEGRAM_BOT_TOKEN", "TELEGRAM_CHAT_ID"}

\* C9: print_config does not raise, and its output has, for every unset
\* notification field, a line that renders it as "not configured".
C9_UnsetRenderedAsPlaceholder ==
    out # <<>> =>
        /\ err = "none"
        /\ \A f \in OptionalFields :
              ns[f] = None =>
                 \E k \in 1..Len(out) :
                    f \in out[k].fields /\ out[k].value = "not configured"

\* C10: once the load has completed no setting changes: a step of a
\* loaded process (a read, a lookup, print_config) leaves the namespace and
\* the filesystem as they are, print_config run by the script does too, and
\* what any reader has read is what the load set.
C10_ReadOnlyAfterLoad ==
    /\ [][(pc = "loaded" /\ pc' = "loaded") =>
             (ns' = ns /\ fs' = fs /\ wr' = wr /\ cfg' = cfg)]_vars
    /\ [](Loaded => ns = nsLoaded)
    /\ [](\A r \in Readers : obs[r].seen => obs[r].view = nsLoaded)

\* C10: both readers have read the settings and print_config has been
\* called in the loaded process.
C10_Witness ==
    /\ pc = "loaded"
    /\ calls >= 1
    /\ out # <<>>
    /\ \A r \in Readers : obs[r].seen /\ obs[r].view = nsLoaded

=============================================================================
